---- MODULE Spec2Model ----
(***************************************************************************)
(* A model of autokeras/hypermodel/block.py: the functional API that wires *)
(* HyperBlocks and Nodes into a graph (HyperBlock.__call__), and the build *)
(* methods of the blocks, which resolve their hyperparameters against a    *)
(* kerastuner HyperParameters container and construct layers.              *)
(*                                                                         *)
(* Tensors are modelled by their shapes (tuples of dimensions, the batch   *)
(* dimension first), layers by the shape they return.                      *)
(***************************************************************************)
EXTENDS Integers, Sequences, FiniteSets, TLC

VARIABLES
    in_hypermodels,   \* Node -> the blocks registered by add_in_hypermodel
    out_hypermodels,  \* Node -> the blocks registered by add_out_hypermodel
    inputs,           \* HyperBlock -> self.inputs
    outputs,          \* HyperBlock -> self.outputs
    ret,              \* the last __call__: its receiver, argument and outcome
    hp,               \* the HyperParameters container: hp.values
    tuned,            \* how many values the search loop put into hp this trial
    last              \* the last build: its receiver, arguments and outcome

wiring == <<in_hypermodels, out_hypermodels, inputs, outputs, ret>>
building == <<hp, tuned, last>>
vars == <<in_hypermodels, out_hypermodels, inputs, outputs, ret, hp, tuned, last>>

----------------------------------------------------------------------------
(* Python values.  A value carries its type, so that False, 0, 0.0 and     *)
(* None stay distinct values that are all falsy.  Floats are held in       *)
(* hundredths (0.25 is PyFloat(25)).                                       *)

PyNone == [ty |-> "NoneType", v |-> 0, s |-> ""]
PyBool(b) == [ty |-> "bool", v |-> IF b THEN 1 ELSE 0, s |-> ""]
PyInt(n) == [ty |-> "int", v |-> n, s |-> ""]
PyFloat(hundredths) == [ty |-> "float", v |-> hundredths, s |-> ""]
PyStr(str) == [ty |-> "str", v |-> 0, s |-> str]

PyTrue == PyBool(TRUE)
PyFalse == PyBool(FALSE)

\* Python truth value testing: None, False, zero of any numeric type and the
\* empty string are false.
Truthy(x) ==
    CASE x.ty = "NoneType" -> FALSE
      [] x.ty = "str" -> x.s # ""
      [] OTHER -> x.v # 0

Range(seq) == {seq[i] : i \in 1..Len(seq)}

----------------------------------------------------------------------------
(* nest.flatten.  A (possibly nested) argument is a sequence of groups,    *)
(* each group a sequence of Nodes: a single Node n is <<<<n>>>>, the list  *)
(* [a, b] is <<<<a>>, <<b>>>> and the nested list [[a, b], c] is           *)
(* <<<<a, b>>, <<c>>>>.  Flattening concatenates the groups in order.      *)

RECURSIVE NestFlatten(_)
NestFlatten(arg) ==
    IF arg = <<>> THEN <<>> ELSE Head(arg) \o NestFlatten(Tail(arg))

----------------------------------------------------------------------------
(* HyperBlock.__call__ and the Nodes.                                      *)

\* self.inputs / self.outputs: None after __init__, a list after __call__.
NoList == [none |-> TRUE, list |-> <<>>]
ListOf(seq) == [none |-> FALSE, list |-> seq]

\* The blocks constructed by the user, by class.
BlockClass == <<"DenseBlock", "Merge", "ResNetBlock">>
Blocks == 1..Len(BlockClass)

\* HyperBlock.__init__: self._num_output_node = 1
NumOutputNode == 1

\* The Input nodes the user created before wiring any block.
InputNodes == 2
\* The Nodes created in a run, the Input nodes included.
MaxNodes == 4

Nodes == 1..Len(in_hypermodels)

\* Node.add_out_hypermodel / Node.add_in_hypermodel: append to the node's list.
add_out_hypermodel(outs, node, block) == [outs EXCEPT ![node] = Append(@, block)]
add_in_hypermodel(ins, node, block) == [ins EXCEPT ![node] = Append(@, block)]

\* A __call__ that registers the block with its first input Node only.
RegisterConsumerFirstOnly(outs, flat, block) ==
    IF flat = <<>> THEN outs ELSE add_out_hypermodel(outs, Head(flat), block)

\* for input_node in self.inputs: input_node.add_out_hypermodel(self)
RECURSIVE RegisterConsumer(_, _, _)
RegisterConsumer(outs, flat, block) ==
    IF flat = <<>> THEN outs
    ELSE RegisterConsumer(add_out_hypermodel(outs, Head(flat), block), Tail(flat), block)

\* The number of Nodes the loop over range(self._num_output_node) creates.
CreatedCount == NumOutputNode

\* The arguments a caller may pass: a single Node, a list of up to two Nodes,
\* a list nested in a list, or the empty list.
CallArgs ==
    {<<>>}
    \cup {<< <<a>> >> : a \in Nodes}
    \cup {<< <<a>>, <<b>> >> : a \in Nodes, b \in Nodes}
    \cup {<< <<a, b>> >> : a \in Nodes, b \in Nodes}

Call(block, arg) ==
    LET flat == NestFlatten(arg)
        n == Len(in_hypermodels)
        fresh == [i \in 1..CreatedCount |-> n + i]
        grownIn == in_hypermodels \o [i \in 1..CreatedCount |-> <<>>]
        grownOut == out_hypermodels \o [i \in 1..CreatedCount |-> <<>>]
        RECURSIVE Producers(_, _)
        Producers(ins, k) ==
            IF k > Len(fresh) THEN ins
            ELSE Producers(add_in_hypermodel(ins, fresh[k], block), k + 1)
    IN  /\ n + CreatedCount <= MaxNodes
        /\ inputs' = [inputs EXCEPT ![block] = ListOf(flat)]
        /\ out_hypermodels' = RegisterConsumer(grownOut, flat, block)
        /\ in_hypermodels' = Producers(grownIn, 1)
        /\ outputs' = [outputs EXCEPT ![block] = ListOf(fresh)]
        /\ ret' = [block |-> block, arg |-> arg, nodesBefore |-> n,
                   outcome |-> "returned", value |-> fresh]
        /\ UNCHANGED building

CallAny == \E block \in Blocks : \E arg \in CallArgs : Call(block, arg)

----------------------------------------------------------------------------
(* The HyperParameters container (kerastuner) and the search loop.         *)

\* hp.Choice(name, options, default): the value hp.values holds for the name;
\* a name not held yet is registered with its default, which is returned.
Choice(h, name, options, default) ==
    IF name \in DOMAIN h
    THEN [value |-> h[name], hp |-> h]
    ELSE [value |-> default, hp |-> h @@ (name :> default)]

\* The idiom `self.x or hp.Choice(name, options, default=default)`: Python's
\* `or` returns self.x when it is truthy, and only otherwise evaluates (and so
\* registers) the hp.Choice.
SelfOrChoice(h, fixed, name, options, default) ==
    IF Truthy(fixed)
    THEN [value |-> fixed, hp |-> h]
    ELSE Choice(h, name, options, default)

\* The idiom of ResNetBlock and XceptionBlock: declare, then
\* hp.values[name] = self.x or hp.values[name].
DeclareThenForce(h, fixed, name, options, default) ==
    LET declared == Choice(h, name, options, default).hp
    IN  [declared EXCEPT ![name] = IF Truthy(fixed) THEN fixed ELSE @]

\* How many values the search loop may put into hp.values for one trial.
MaxTuned == 2

\* The search loop fills hp.values for the trial, before the trial's builds:
\* one value, of the declared options of a name of the search space that
\* holds no value yet.
Tune(space) ==
    /\ last.op = "none"
    /\ tuned < MaxTuned
    /\ \E d \in space : \E value \in Range(d.options) :
          /\ d.name \notin DOMAIN hp
          /\ hp' = hp @@ (d.name :> value)
    /\ tuned' = tuned + 1
    /\ UNCHANGED <<last, wiring>>

\* The search loop starts the next trial with an empty hp.values.
NewTrial ==
    /\ hp # <<>>
    /\ hp' = <<>>
    /\ tuned' = 0
    /\ last' = [op |-> "none"]
    /\ UNCHANGED wiring

Declared(name, options) == [name |-> name, options |-> options]

\* The outcome of a build: the returned value or the exception raised, and
\* hp.values as the build leaves it.
Returned(h, value) == [outcome |-> "returned", value |-> value, hp |-> h]
Raised(h, error, detail) == [outcome |-> error, value |-> detail, hp |-> h]

\* utils.validate_num_inputs(inputs, num)
validate_num_inputs(args, num) == Len(args) = num

\* A build is one step: the result goes to `last`, the registrations to hp.
Built(op, self, args, result) ==
    /\ last' = [op |-> op, self |-> self, args |-> args,
                outcome |-> result.outcome, value |-> result.value]
    /\ hp' = result.hp
    /\ UNCHANGED <<tuned, wiring>>

----------------------------------------------------------------------------
(* Shapes.                                                                 *)

Rank(shape) == Len(shape)

RECURSIVE Product(_)
Product(dims) == IF dims = <<>> THEN 1 ELSE Head(dims) * Product(Tail(dims))

\* shape[:-1]
AllButLast(shape) == SubSeq(shape, 1, Len(shape) - 1)
\* shape[-1]
LastDim(shape) == shape[Len(shape)]

\* tf.keras.layers.Flatten()(x): every dimension but the batch one collapsed.
KerasFlatten(shape) == <<shape[1], Product(Tail(shape))>>

\* tf.keras.layers.Concatenate()(xs): along the last axis.
RECURSIVE SumLastDims(_)
SumLastDims(shapes) ==
    IF shapes = <<>> THEN 0 ELSE LastDim(Head(shapes)) + SumLastDims(Tail(shapes))
KerasConcatenate(shapes) == Append(AllButLast(shapes[1]), SumLastDims(shapes))

----------------------------------------------------------------------------
(* Flatten.build                                                           *)

\* A Flatten that leaves rank-3 tensors alone.
FlattenBuildAboveRank3(h, args) ==
    IF ~validate_num_inputs(args, 1)
    THEN Raised(h, "InvalidInputCount", Len(args))
    ELSE LET input_node == args[1]
         IN  IF Rank(input_node) > 3
             THEN Returned(h, [op |-> "Flatten", shape |-> KerasFlatten(input_node)])
             ELSE Returned(h, [op |-> "input", shape |-> input_node])

FlattenBuild(h, args) ==
    IF ~validate_num_inputs(args, 1)
    THEN Raised(h, "InvalidInputCount", Len(args))
    ELSE LET input_node == args[1]
         IN  IF Rank(input_node) > 2
             THEN Returned(h, [op |-> "Flatten", shape |-> KerasFlatten(input_node)])
             ELSE Returned(h, [op |-> "input", shape |-> input_node])

\* The tensors handed to Flatten in the runs, by shape; 0 stands for the
\* batch dimension.
SomeShapes ==
    {<<0, 6>>, <<0, 2, 3>>, <<0, 2, 4>>, <<0, 3, 2>>, <<0, 2, 2, 3>>}

FlattenStep ==
    \E args \in {<<>>} \cup {<<x>> : x \in SomeShapes} \cup {<<x, x>> : x \in SomeShapes}
                \cup (IF last.op = "Flatten.build" /\ last.outcome = "returned"
                      THEN {<<last.value.shape>>} ELSE {}) :
        Built("Flatten.build", [class |-> "Flatten"], args, FlattenBuild(hp, args))

----------------------------------------------------------------------------
(* Merge.build                                                             *)

\* A shape_compatible that compares the whole shapes.
shape_compatible_whole(shape1, shape2) ==
    IF Len(shape1) # Len(shape2)
    THEN FALSE
    ELSE shape1 = shape2

shape_compatible(shape1, shape2) ==
    IF Len(shape1) # Len(shape2)
    THEN FALSE
    ELSE AllButLast(shape1) = AllButLast(shape2)

\* A check with any() in the place of all().
AnyCompatibleWithFirst(shapes) ==
    \E i \in 1..Len(shapes) : shape_compatible(shapes[i], shapes[1])

\* all([shape_compatible(input_node.shape, inputs[0].shape) for input_node in inputs])
AllCompatibleWithFirst(shapes) ==
    \A i \in 1..Len(shapes) : shape_compatible(shapes[i], shapes[1])

\* all([input_node.shape == inputs[0].shape for input_node in inputs])
AllSameShapeAsFirst(shapes) ==
    \A i \in 1..Len(shapes) : shapes[i] = shapes[1]

MergeTypeChoices == <<PyStr("add"), PyStr("concatenate")>>

\* tf.keras.layers.Add(inputs): the layer's constructor called with the inputs
\* as a positional argument; the constructor of a merge layer takes keyword
\* arguments only, so the call raises TypeError.
KerasAddConstructedWith(h, operands, flattened) ==
    Raised(h, "TypeError", [op |-> "Add(inputs)", operands |-> operands,
                            flattened |-> flattened])

MergeBuild(h, self, args) ==
    IF Len(args) = 1
    THEN Returned(h, [op |-> "inputs", shape |-> args[1], operands |-> args,
                      flattened |-> FALSE])
    ELSE LET merge_type == SelfOrChoice(h, self.merge_type, "merge_type",
                                        MergeTypeChoices, PyStr("add"))
             flattened == ~AllCompatibleWithFirst(args)
             new_inputs ==
                 IF flattened
                 THEN [i \in 1..Len(args) |->
                          FlattenBuild(merge_type.hp, <<args[i]>>).value.shape]
                 ELSE args
         IN  IF AllSameShapeAsFirst(new_inputs) /\ merge_type.value = PyStr("add")
             THEN KerasAddConstructedWith(merge_type.hp, new_inputs, flattened)
             ELSE Returned(merge_type.hp,
                           [op |-> "Concatenate", shape |-> KerasConcatenate(new_inputs),
                            operands |-> new_inputs, flattened |-> flattened,
                            merge_type |-> merge_type.value])

\* The tensors handed to Merge in the runs, by shape, and how many at most.
MergeShapes == {<<0, 6>>, <<0, 2, 3>>, <<0, 2, 4>>, <<0, 3, 2>>}
MaxInputs == 3

MergeArgs == UNION {[1..n -> MergeShapes] : n \in 1..MaxInputs}

MergeStep ==
    \E merge_type \in {PyNone} \cup Range(MergeTypeChoices) : \E args \in MergeArgs :
        LET self == [class |-> "Merge", merge_type |-> merge_type]
        IN  Built("Merge.build", self, args, MergeBuild(hp, self, args))

MergeSpace == {Declared("merge_type", MergeTypeChoices)}

TuneMerge == Tune(MergeSpace)

NextMerge == FlattenStep \/ MergeStep \/ TuneMerge \/ NewTrial

----------------------------------------------------------------------------
(* RNNBlock.build                                                          *)

BooleanChoices == <<PyTrue, PyFalse>>
NumLayersChoices == <<PyInt(1), PyInt(2), PyInt(3)>>
LayerTypeChoices == <<PyStr("gru"), PyStr("lstm")>>

\* attention_choices, by self.return_sequences
AttentionChoices(return_sequences) ==
    IF Truthy(return_sequences)
    THEN <<PyStr("pre"), PyStr("post"), PyStr("none")>>
    ELSE <<PyStr("pre"), PyStr("none")>>

\* if len(shape) != 3: raise ValueError(...)
RNNRankRejected(shape) == Len(shape) # 3

\* RNNBlock.attention_block: Permute((2, 1)), Dense(time_steps), Permute back
\* and Multiply with the input.  Permute((2, 1)) takes rank-3 tensors only.
AttentionApplies(shape) == Len(shape) = 3
attention_block(shape) ==
    LET time_steps == shape[2]
        permuted == <<shape[1], shape[3], shape[2]>>
        dense == <<permuted[1], permuted[2], time_steps>>
        back == <<dense[1], dense[3], dense[2]>>
    IN  back

\* A stack whose last layer too returns the full sequence.
ReturnSequencesAlwaysTrue(i, num_layers, self_return_sequences) == PyTrue

\* return_sequences of layer i of range(num_layers)
ReturnSequencesOf(i, num_layers, self_return_sequences) ==
    IF i = num_layers - 1 THEN self_return_sequences ELSE PyTrue

\* in_layer(feature_size, return_sequences=...)(x), in Bidirectional or not:
\* the output keeps the time axis only when the layer returns sequences, and
\* Bidirectional concatenates the two directions.
RecurrentOutput(shape, units, return_sequences, bidirectional) ==
    LET width == IF bidirectional THEN 2 * units ELSE units
    IN  IF Truthy(return_sequences)
        THEN <<shape[1], shape[2], width>>
        ELSE <<shape[1], width>>

\* for i in range(num_layers): ...   (lines 174-185)
RECURSIVE RNNStack(_, _, _, _, _, _, _)
RNNStack(i, num_layers, shape, layers, self, layer_type, bidirectional) ==
    IF i >= num_layers
    THEN [shape |-> shape, layers |-> layers]
    ELSE LET return_sequences == ReturnSequencesOf(i, num_layers, self.return_sequences)
             feature_size == layers.feature_size
         IN  RNNStack(i + 1, num_layers,
                      RecurrentOutput(shape, feature_size, return_sequences,
                                      Truthy(bidirectional)),
                      [layers EXCEPT !.stack =
                          Append(@, [layer |-> layer_type.s,
                                     units |-> feature_size,
                                     return_sequences |-> return_sequences,
                                     bidirectional |-> Truthy(bidirectional),
                                     input |-> shape])],
                      self, layer_type, bidirectional)

RNNBuild(h, self, args) ==
    IF ~validate_num_inputs(args, 1)
    THEN Raised(h, "InvalidInputCount", Len(args))
    ELSE
    LET shape == args[1]
    IN  IF RNNRankRejected(shape)
        THEN Raised(h, "ValueError",
                    [raised_by |-> "RNNBlock.build", message_shape |-> shape,
                     stack |-> <<>>])
        ELSE
        LET feature_size == LastDim(shape)
            attention_choices == AttentionChoices(self.return_sequences)
            bidirectional == SelfOrChoice(h, self.bidirectional, "bidirectional",
                                          BooleanChoices, PyTrue)
            attention == SelfOrChoice(bidirectional.hp, self.attention, "attention",
                                      attention_choices, PyStr("none"))
            layer_type == SelfOrChoice(attention.hp, self.layer_type, "layer_type",
                                       LayerTypeChoices, PyStr("lstm"))
            num_layers == SelfOrChoice(layer_type.hp, self.num_layers, "num_layers",
                                       NumLayersChoices, PyInt(2))
            h4 == num_layers.hp
            pre == IF attention.value = PyStr("pre") THEN attention_block(shape) ELSE shape
            stacked == RNNStack(0, num_layers.value.v, pre,
                                [feature_size |-> feature_size, stack |-> <<>>],
                                self, layer_type.value, bidirectional.value)
            resolved == [bidirectional |-> bidirectional.value,
                         attention |-> attention.value,
                         layer_type |-> layer_type.value,
                         num_layers |-> num_layers.value]
        IN  IF attention.value = PyStr("post") /\ ~AttentionApplies(stacked.shape)
            THEN Raised(h4, "ValueError",
                        [raised_by |-> "Permute", message_shape |-> stacked.shape,
                         stack |-> stacked.layers.stack])
            ELSE Returned(h4,
                          [shape |-> IF attention.value = PyStr("post")
                                     THEN attention_block(stacked.shape)
                                     ELSE stacked.shape,
                           stack |-> stacked.layers.stack,
                           resolved |-> resolved])

\* The RNNBlocks constructed in the runs: return_sequences either way, and
\* at most one of the tunable arguments fixed.
RNNBlockOf(rs, bi, at, nl, lt) ==
    [class |-> "RNNBlock", return_sequences |-> rs, bidirectional |-> bi,
     attention |-> at, num_layers |-> nl, layer_type |-> lt]
RNNSelves ==
    UNION {{RNNBlockOf(rs, PyNone, PyNone, PyNone, PyNone),
            RNNBlockOf(rs, PyTrue, PyNone, PyNone, PyNone),
            RNNBlockOf(rs, PyFalse, PyNone, PyNone, PyNone),
            RNNBlockOf(rs, PyNone, PyStr("pre"), PyNone, PyNone),
            RNNBlockOf(rs, PyNone, PyNone, PyInt(1), PyNone),
            RNNBlockOf(rs, PyNone, PyNone, PyInt(4), PyNone),
            RNNBlockOf(rs, PyNone, PyNone, PyNone, PyStr("gru"))} :
           rs \in {PyTrue, PyFalse}}

\* The inputs of RNNBlock.build in the runs: none, one of rank 2, 3 or 4, two.
RNNArgs ==
    {<<>>, << <<0, 8>> >>, << <<0, 10, 8>> >>, << <<0, 4, 10, 8>> >>,
     << <<0, 10, 8>>, <<0, 10, 8>> >>}

RNNStep ==
    \E self \in RNNSelves : \E args \in RNNArgs :
        Built("RNNBlock.build", self, args, RNNBuild(hp, self, args))

RNNSpace ==
    {Declared("bidirectional", BooleanChoices),
     Declared("attention", AttentionChoices(PyTrue)),
     Declared("layer_type", LayerTypeChoices),
     Declared("num_layers", NumLayersChoices)}

TuneRNN == Tune(RNNSpace)

NextRNN == RNNStep \/ TuneRNN \/ NewTrial

----------------------------------------------------------------------------
(* DenseBlock.build                                                        *)

DropoutRateChoices == <<PyInt(0), PyFloat(25), PyFloat(50)>>
UnitsChoices ==
    <<PyInt(16), PyInt(32), PyInt(64), PyInt(128), PyInt(256), PyInt(512), PyInt(1024)>>

\* 'units_{i}'.format(i=i)
UnitsName(i) == "units_" \o ToString(i)

\* for i in range(num_layers): ...   (lines 96-105)
RECURSIVE DenseLayers(_, _, _, _, _, _, _)
DenseLayers(i, num_layers, h, shape, layers, use_bn, dropout_rate) ==
    IF i >= num_layers
    THEN [hp |-> h, shape |-> shape, layers |-> layers]
    ELSE LET units == Choice(h, UnitsName(i), UnitsChoices, PyInt(32))
             dense == <<[layer |-> "Dense", arg |-> units.value]>>
             bn == IF Truthy(use_bn)
                   THEN <<[layer |-> "BatchNormalization", arg |-> PyNone]>>
                   ELSE <<>>
             rest == <<[layer |-> "ReLU", arg |-> PyNone],
                       [layer |-> "Dropout", arg |-> dropout_rate]>>
         IN  DenseLayers(i + 1, num_layers, units.hp,
                         Append(AllButLast(shape), units.value.v),
                         layers \o dense \o bn \o rest, use_bn, dropout_rate)

DenseBuild(h, self, args) ==
    IF ~validate_num_inputs(args, 1)
    THEN Raised(h, "InvalidInputCount", Len(args))
    ELSE
    LET input_node == args[1]
        flat == FlattenBuild(h, <<input_node>>).value.shape
        num_layers == SelfOrChoice(h, self.num_layers, "num_layers",
                                   NumLayersChoices, PyInt(2))
        use_bn == SelfOrChoice(num_layers.hp, self.use_bn, "use_bn",
                               BooleanChoices, PyFalse)
        dropout_rate == SelfOrChoice(use_bn.hp, self.dropout_rate, "dropout_rate",
                                     DropoutRateChoices, PyInt(0))
        built == DenseLayers(0, num_layers.value.v, dropout_rate.hp, flat, <<>>,
                             use_bn.value, dropout_rate.value)
    IN  Returned(built.hp,
                 [shape |-> built.shape, layers |-> built.layers,
                  resolved |-> [num_layers |-> num_layers.value,
                                use_bn |-> use_bn.value,
                                dropout_rate |-> dropout_rate.value]])

\* The DenseBlocks constructed in the runs: at most one argument fixed.
DenseBlockOf(nl, bn, dr) ==
    [class |-> "DenseBlock", num_layers |-> nl, use_bn |-> bn, dropout_rate |-> dr]
DenseSelves ==
    {DenseBlockOf(PyNone, PyNone, PyNone),
     DenseBlockOf(PyInt(2), PyNone, PyNone),
     DenseBlockOf(PyInt(4), PyNone, PyNone),
     DenseBlockOf(PyNone, PyTrue, PyNone),
     DenseBlockOf(PyNone, PyFalse, PyNone),
     DenseBlockOf(PyNone, PyNone, PyInt(0)),
     DenseBlockOf(PyNone, PyNone, PyFloat(50))}

DenseArgs ==
    {<<>>, << <<0, 8>> >>, << <<0, 4, 2>> >>, << <<0, 8>>, <<0, 8>> >>}

DenseStep ==
    \E self \in DenseSelves : \E args \in DenseArgs :
        Built("DenseBlock.build", self, args, DenseBuild(hp, self, args))

DenseSpace ==
    {Declared("num_layers", NumLayersChoices),
     Declared("use_bn", BooleanChoices),
     Declared("dropout_rate", DropoutRateChoices)}
    \cup {Declared(UnitsName(i), UnitsChoices) : i \in 0..2}

TuneDense == Tune(DenseSpace)

NextDense == DenseStep \/ TuneDense \/ NewTrial

----------------------------------------------------------------------------
(* ConvBlock.build                                                         *)

KernelSizeChoices == <<PyInt(3), PyInt(5), PyInt(7)>>
NumBlocksChoices == <<PyInt(1), PyInt(2), PyInt(3)>>
FiltersChoices == <<PyInt(16), PyInt(32), PyInt(64)>>

\* 'filters_{i}_1'.format(i=i), 'filters_{i}_2'.format(i=i)
FiltersName(i, k) == "filters_" \o ToString(i) \o "_" \o ToString(k)

\* ConvBlock._get_padding: output_node.shape[1] and output_node.shape[2],
\* counted from 0, are the second and third dimensions.
get_padding(kernel_size, shape) ==
    IF kernel_size * 2 <= shape[2] /\ kernel_size * 2 <= shape[3]
    THEN "valid"
    ELSE "same"

\* The spatial axes of a channels-last tensor: all but the batch axis and the
\* channel axis.
SpatialAxes(shape) == 2..(Len(shape) - 1)

\* Conv1D/Conv2D (or SeparableConv) with stride 1: 'valid' shortens every
\* spatial dimension by kernel_size - 1, 'same' keeps it; the channels become
\* the filters.
ConvOutput(shape, filters, kernel_size, padding) ==
    [d \in 1..Len(shape) |->
        IF d = Len(shape) THEN filters
        ELSE IF d \in SpatialAxes(shape) /\ padding = "valid"
             THEN shape[d] - kernel_size + 1
             ELSE shape[d]]

\* MaxPooling1D/2D with strides = pool_size: 'valid' gives floor((d - p) / p) + 1,
\* 'same' gives ceil(d / p).
PoolOutput(shape, pool_size, padding) ==
    [d \in 1..Len(shape) |->
        IF d \in SpatialAxes(shape)
        THEN IF padding = "valid"
             THEN ((shape[d] - pool_size) \div pool_size) + 1
             ELSE (shape[d] + pool_size - 1) \div pool_size
        ELSE shape[d]]

Applied(layer, size, padding, shape, output) ==
    [layer |-> layer, size |-> size, padding |-> padding,
     input |-> shape, output |-> output]

\* for i in range(num_blocks): ...   (lines 271-288)
RECURSIVE ConvBlocks(_, _, _, _, _, _, _, _)
ConvBlocks(i, num_blocks, h, shape, layers, kernel_size, dropout_rate, conv) ==
    IF i >= num_blocks
    THEN [hp |-> h, shape |-> shape, layers |-> layers]
    ELSE LET dropped == IF dropout_rate.v > 0
                        THEN <<Applied("Dropout", dropout_rate.v, "", shape, shape)>>
                        ELSE <<>>
             filters1 == Choice(h, FiltersName(i, 1), FiltersChoices, PyInt(32))
             padding1 == get_padding(kernel_size, shape)
             out1 == ConvOutput(shape, filters1.value.v, kernel_size, padding1)
             filters2 == Choice(filters1.hp, FiltersName(i, 2), FiltersChoices, PyInt(32))
             padding2 == get_padding(kernel_size, out1)
             out2 == ConvOutput(out1, filters2.value.v, kernel_size, padding2)
             padding3 == get_padding(kernel_size - 1, out2)
             out3 == PoolOutput(out2, kernel_size - 1, padding3)
         IN  ConvBlocks(i + 1, num_blocks, filters2.hp, out3,
                        layers \o dropped
                        \o <<Applied(conv, kernel_size, padding1, shape, out1),
                             Applied(conv, kernel_size, padding2, out1, out2),
                             Applied("MaxPooling", kernel_size - 1, padding3, out2, out3)>>,
                        kernel_size, dropout_rate, conv)

ConvBuild(h, self, args) ==
    IF ~validate_num_inputs(args, 1)
    THEN Raised(h, "InvalidInputCount", Len(args))
    ELSE
    LET input_node == args[1]
        kernel_size == SelfOrChoice(h, self.kernel_size, "kernel_size",
                                    KernelSizeChoices, PyInt(3))
        dropout_rate == SelfOrChoice(kernel_size.hp, self.dropout_rate, "dropout_rate",
                                     DropoutRateChoices, PyFloat(50))
        num_blocks == SelfOrChoice(dropout_rate.hp, self.num_blocks, "num_blocks",
                                   NumBlocksChoices, PyInt(2))
        separable == SelfOrChoice(num_blocks.hp, self.separable, "separable",
                                  BooleanChoices, PyFalse)
        conv == IF Truthy(separable.value) THEN "SeparableConv" ELSE "Conv"
        built == ConvBlocks(0, num_blocks.value.v, separable.hp, input_node, <<>>,
                            kernel_size.value.v, dropout_rate.value, conv)
    IN  Returned(built.hp,
                 [shape |-> built.shape, layers |-> built.layers,
                  resolved |-> [kernel_size |-> kernel_size.value,
                                dropout_rate |-> dropout_rate.value,
                                num_blocks |-> num_blocks.value,
                                separable |-> separable.value]])

\* The ConvBlocks constructed in the runs: at most one argument fixed.
ConvBlockOf(ks, dr, nb, sep) ==
    [class |-> "ConvBlock", kernel_size |-> ks, dropout_rate |-> dr,
     num_blocks |-> nb, separable |-> sep]
ConvSelves ==
    {ConvBlockOf(PyNone, PyNone, PyNone, PyNone),
     ConvBlockOf(PyInt(5), PyNone, PyNone, PyNone),
     ConvBlockOf(PyNone, PyInt(0), PyNone, PyNone),
     ConvBlockOf(PyNone, PyNone, PyInt(1), PyNone),
     ConvBlockOf(PyNone, PyNone, PyNone, PyTrue),
     ConvBlockOf(PyNone, PyNone, PyNone, PyFalse)}

\* The inputs of ConvBlock.build in the runs: images (rank 4) and sequences
\* (rank 3), channels last; none and two.
ConvArgs ==
    {<<>>, << <<0, 6, 6, 3>> >>, << <<0, 4, 4, 1>> >>, << <<0, 28, 28, 1>> >>,
     << <<0, 10, 3>> >>, << <<0, 4, 16>> >>, << <<0, 30, 16>> >>,
     << <<0, 6, 6, 3>>, <<0, 6, 6, 3>> >>}

ConvStep ==
    \E self \in ConvSelves : \E args \in ConvArgs :
        Built("ConvBlock.build", self, args, ConvBuild(hp, self, args))

ConvSpace ==
    {Declared("kernel_size", KernelSizeChoices),
     Declared("dropout_rate", DropoutRateChoices),
     Declared("num_blocks", NumBlocksChoices),
     Declared("separable", BooleanChoices)}
    \cup {Declared(FiltersName(i, k), FiltersChoices) : i \in 0..2, k \in 1..2}

TuneConv == Tune(ConvSpace)

NextConv == ConvStep \/ TuneConv \/ NewTrial

----------------------------------------------------------------------------
(* ResNetBlock.build and XceptionBlock.build                               *)

\* hp.Choice(name, options) without a default: the first option is the
\* default.
ChoiceNoDefault(h, name, options) == Choice(h, name, options, options[1])

\* hp.Range(name, low, high, default=default): as hp.Choice, the value held
\* for the name, or the default, which it registers.
HpRange(h, name, low, high, default) ==
    IF name \in DOMAIN h
    THEN [value |-> h[name], hp |-> h]
    ELSE [value |-> default, hp |-> h @@ (name :> default)]

\* hp.values[name] = self.x or hp.values[name]
Force(h, name, fixed) == [h EXCEPT ![name] = IF Truthy(fixed) THEN fixed ELSE @]

VersionChoices == <<PyStr("v1"), PyStr("v2"), PyStr("next")>>
ResNetPoolingChoices == <<PyStr("avg"), PyStr("max")>>

\* The model is built by kerastuner's HyperResNet from hp.values, which is
\* all that is kept of it here.
ResNetBuild(h, self, args) ==
    IF args = <<>>
    THEN Raised(h, "IndexError", 0)
    ELSE
    LET input_tensor == args[1]
        h1 == Choice(h, "version", VersionChoices, PyStr("v2")).hp
        h2 == Choice(h1, "pooling", ResNetPoolingChoices, PyStr("avg")).hp
        h3 == Force(h2, "version", self.version)
        h4 == Force(h3, "pooling", self.pooling)
    IN  Returned(h4, [model |-> "HyperResNet", input_tensor |-> input_tensor,
                      resolved |-> [version |-> h4["version"],
                                    pooling |-> h4["pooling"]]])

ActivationChoices == <<PyStr("relu"), PyStr("selu")>>
Conv2dNumFiltersChoices == <<PyInt(32), PyInt(64), PyInt(128)>>
XceptionKernelSizeChoices == <<PyInt(3), PyInt(5)>>
InitialStridesChoices == <<PyInt(2)>>
XceptionPoolingChoices == <<PyStr("avg"), PyStr("flatten"), PyStr("max")>>

\* The model is built by kerastuner's HyperXception from hp.values.
XceptionBuild(h, self, args) ==
    IF args = <<>>
    THEN Raised(h, "IndexError", 0)
    ELSE
    LET input_tensor == args[1]
        h1 == ChoiceNoDefault(h, "activation", ActivationChoices).hp
        h2 == Choice(h1, "conv2d_num_filters", Conv2dNumFiltersChoices, PyInt(64)).hp
        h3 == ChoiceNoDefault(h2, "kernel_size", XceptionKernelSizeChoices).hp
        h4 == ChoiceNoDefault(h3, "initial_strides", InitialStridesChoices).hp
        h5 == HpRange(h4, "num_residual_blocks", 2, 8, PyInt(4)).hp
        h6 == ChoiceNoDefault(h5, "pooling", XceptionPoolingChoices).hp
        f1 == Force(h6, "activation", self.activation)
        f2 == Force(f1, "conv2d_num_filters", self.conv2d_num_filters)
        f3 == Force(f2, "kernel_size", self.kernel_size)
        f4 == Force(f3, "initial_strides", self.initial_strides)
        f5 == Force(f4, "num_residual_blocks", self.num_residual_blocks)
        f6 == Force(f5, "pooling", self.pooling)
    IN  Returned(f6, [model |-> "HyperXception", input_tensor |-> input_tensor,
                      resolved |-> [activation |-> f6["activation"],
                                    conv2d_num_filters |-> f6["conv2d_num_filters"],
                                    kernel_size |-> f6["kernel_size"],
                                    initial_strides |-> f6["initial_strides"],
                                    num_residual_blocks |-> f6["num_residual_blocks"],
                                    pooling |-> f6["pooling"]]])

----------------------------------------------------------------------------
(* SpatialReduction.build and TemporalReduction.build                      *)

SpatialReductionChoices ==
    <<PyStr("flatten"), PyStr("global_max"), PyStr("global_ave")>>
TemporalReductionChoices ==
    <<PyStr("flatten"), PyStr("global_max"), PyStr("global_ave"), PyStr("global_min")>>

\* GlobalMaxPooling{1,2,3}D and GlobalAveragePooling{1,2,3}D: the spatial
\* axes are reduced away, batch and channels stay.
GlobalPooling(shape) == <<shape[1], LastDim(shape)>>

\* tf.math.reduce_max/mean/min(x, axis=-2)
ReduceAxisMinus2(shape) ==
    SubSeq(shape, 1, Len(shape) - 2) \o <<LastDim(shape)>>

SpatialReductionBuild(h, self, args) ==
    IF ~validate_num_inputs(args, 1)
    THEN Raised(h, "InvalidInputCount", Len(args))
    ELSE
    LET input_node == args[1]
        reduction_type == SelfOrChoice(h, self.reduction_type, "reduction_type",
                                       SpatialReductionChoices, PyStr("global_ave"))
    IN  IF Rank(input_node) <= 2
        THEN Returned(h, [op |-> "input", shape |-> input_node])
        ELSE Returned(reduction_type.hp,
                 [reduction_type |-> reduction_type.value] @@
                 (CASE reduction_type.value = PyStr("flatten") ->
                           FlattenBuild(reduction_type.hp, <<input_node>>).value
                    [] reduction_type.value = PyStr("global_max") ->
                           [op |-> "GlobalMaxPooling", shape |-> GlobalPooling(input_node)]
                    [] reduction_type.value = PyStr("global_ave") ->
                           [op |-> "GlobalAveragePooling", shape |-> GlobalPooling(input_node)]
                    [] OTHER -> [op |-> "input", shape |-> input_node]))

TemporalReductionBuild(h, self, args) ==
    IF ~validate_num_inputs(args, 1)
    THEN Raised(h, "InvalidInputCount", Len(args))
    ELSE
    LET input_node == args[1]
        reduction_type == SelfOrChoice(h, self.reduction_type, "reduction_type",
                                       TemporalReductionChoices, PyStr("global_ave"))
    IN  IF Rank(input_node) <= 2
        THEN Returned(h, [op |-> "input", shape |-> input_node])
        ELSE Returned(reduction_type.hp,
                 [reduction_type |-> reduction_type.value] @@
                 (CASE reduction_type.value = PyStr("flatten") ->
                           FlattenBuild(reduction_type.hp, <<input_node>>).value
                    [] reduction_type.value = PyStr("global_max") ->
                           [op |-> "reduce_max", shape |-> ReduceAxisMinus2(input_node)]
                    [] reduction_type.value = PyStr("global_ave") ->
                           [op |-> "reduce_mean", shape |-> ReduceAxisMinus2(input_node)]
                    [] reduction_type.value = PyStr("global_min") ->
                           [op |-> "reduce_min", shape |-> ReduceAxisMinus2(input_node)]
                    [] OTHER -> [op |-> "input", shape |-> input_node]))

----------------------------------------------------------------------------
(* One trial: blocks of several classes built against one hp container.    *)

ResNetBlockOf(version, pooling) ==
    [class |-> "ResNetBlock", version |-> version, pooling |-> pooling]
XceptionBlockOf(kernel_size, pooling) ==
    [class |-> "XceptionBlock", activation |-> PyNone, conv2d_num_filters |-> PyNone,
     kernel_size |-> kernel_size, initial_strides |-> PyNone,
     num_residual_blocks |-> PyNone, pooling |-> pooling]
ReductionOf(class, reduction_type) ==
    [class |-> class, reduction_type |-> reduction_type]

\* The blocks constructed in the runs.
ResNetSelves ==
    {ResNetBlockOf(PyNone, PyNone), ResNetBlockOf(PyStr("v1"), PyNone),
     ResNetBlockOf(PyNone, PyStr("max"))}
XceptionSelves ==
    {XceptionBlockOf(PyNone, PyNone), XceptionBlockOf(PyInt(5), PyNone),
     XceptionBlockOf(PyNone, PyStr("flatten"))}
SpatialSelves ==
    {ReductionOf("SpatialReduction", PyNone),
     ReductionOf("SpatialReduction", PyStr("flatten"))}
TemporalSelves ==
    {ReductionOf("TemporalReduction", PyNone),
     ReductionOf("TemporalReduction", PyStr("global_min"))}

\* The inputs of the builds in the runs: an image, and for the reductions
\* also a sequence, a vector, and none.
ImageArgs == {<< <<0, 28, 28, 1>> >>}
ReductionArgs == {<<>>, << <<0, 8>> >>, << <<0, 10, 3>> >>, << <<0, 6, 6, 3>> >>}

TrialConvStep ==
    \E args \in ImageArgs :
        LET self == ConvBlockOf(PyNone, PyNone, PyNone, PyNone)
        IN  Built("ConvBlock.build", self, args, ConvBuild(hp, self, args))

ResNetStep ==
    \E self \in ResNetSelves : \E args \in ImageArgs \cup {<<>>} :
        Built("ResNetBlock.build", self, args, ResNetBuild(hp, self, args))

XceptionStep ==
    \E self \in XceptionSelves : \E args \in ImageArgs \cup {<<>>} :
        Built("XceptionBlock.build", self, args, XceptionBuild(hp, self, args))

SpatialReductionStep ==
    \E self \in SpatialSelves : \E args \in ReductionArgs :
        Built("SpatialReduction.build", self, args, SpatialReductionBuild(hp, self, args))

TemporalReductionStep ==
    \E self \in TemporalSelves : \E args \in ReductionArgs :
        Built("TemporalReduction.build", self, args, TemporalReductionBuild(hp, self, args))

\* The search space the earlier builds of the hypermodel registered for the
\* names more than one block class declares: the options are those of the
\* block that declared the name first, whichever it was.
TrialSpace ==
    {Declared("kernel_size", KernelSizeChoices),
     Declared("kernel_size", XceptionKernelSizeChoices),
     Declared("pooling", ResNetPoolingChoices),
     Declared("pooling", XceptionPoolingChoices),
     Declared("reduction_type", SpatialReductionChoices),
     Declared("reduction_type", TemporalReductionChoices)}

TuneTrial == Tune(TrialSpace)

NextTrial ==
    \/ TrialConvStep
    \/ ResNetStep
    \/ XceptionStep
    \/ SpatialReductionStep
    \/ TemporalReductionStep
    \/ TuneTrial
    \/ NewTrial

----------------------------------------------------------------------------
(* The initial state and the specifications.                               *)

NoCall == [block |-> 0, arg |-> <<>>, nodesBefore |-> 0, outcome |-> "none", value |-> <<>>]

Init ==
    /\ in_hypermodels = [i \in 1..InputNodes |-> <<>>]
    /\ out_hypermodels = [i \in 1..InputNodes |-> <<>>]
    /\ inputs = [b \in Blocks |-> NoList]
    /\ outputs = [b \in Blocks |-> NoList]
    /\ ret = NoCall
    /\ hp = <<>>
    /\ tuned = 0
    /\ last = [op |-> "none"]

Next == CallAny

Spec == Init /\ [][Next]_vars

\* DenseBlocks built against one hp container.
SpecDense == Init /\ [][NextDense]_vars

\* ConvBlocks built against one hp container.
SpecConv == Init /\ [][NextConv]_vars

\* RNNBlocks built against one hp container.
SpecRNN == Init /\ [][NextRNN]_vars

\* Flatten and Merge built against one hp container.
SpecMerge == Init /\ [][NextMerge]_vars

\* Blocks of several classes built against one hp container.
SpecTrial == Init /\ [][NextTrial]_vars

----------------------------------------------------------------------------
(* The claims.                                                             *)

\* The leaves of a nested argument, counted and located without flattening.
RECURSIVE LeafCount(_)
LeafCount(arg) == IF arg = <<>> THEN 0 ELSE Len(Head(arg)) + LeafCount(Tail(arg))
LeafOffset(arg, g) == LeafCount(SubSeq(arg, 1, g - 1))

\* The number of inputs a block class takes; Merge takes any number.
HasFixedArity(class) == class # "Merge"
Arity(class) == 1

\* C2 (as claimed): a __call__ with a number of inputs other than the block's
\* arity ends in InvalidInputCount, and one with the right number returns
\* the block's number of output Nodes.
C2_CallChecksInputCount ==
    (ret.block # 0 /\ HasFixedArity(BlockClass[ret.block])) =>
        IF LeafCount(ret.arg) # Arity(BlockClass[ret.block])
        THEN ret.outcome = "InvalidInputCount"
        ELSE ret.outcome = "returned" /\ Len(ret.value) = NumOutputNode

\* The effect of one __call__ (C3): it sets the block's inputs to the flattened argument in
\* order, registers the block as a consumer of each input Node, creates
\* exactly _num_output_node Nodes that did not exist before, registers the
\* block as the producer of each of them and of no other Node, and returns
\* the list of those Nodes.
C3_CallStep ==
    ret' # ret =>
        LET block == ret'.block
            arg == ret'.arg
            before == Len(in_hypermodels)
            fresh == [i \in 1..NumOutputNode |-> before + i]
        IN  /\ ~inputs'[block].none
            /\ Len(inputs'[block].list) = LeafCount(arg)
            /\ \A g \in 1..Len(arg) : \A k \in 1..Len(arg[g]) :
                   inputs'[block].list[LeafOffset(arg, g) + k] = arg[g][k]
            /\ \A g \in 1..Len(arg) : \A k \in 1..Len(arg[g]) :
                   block \in Range(out_hypermodels'[arg[g][k]])
            /\ Len(in_hypermodels') = before + NumOutputNode
            /\ Len(out_hypermodels') = before + NumOutputNode
            /\ \A n \in Range(fresh) : in_hypermodels'[n] = <<block>>
            /\ \A n \in 1..before : in_hypermodels'[n] = in_hypermodels[n]
            /\ outputs'[block] = ListOf(fresh)
            /\ ret'.outcome = "returned"
            /\ ret'.value = fresh

\* C3: every step of HyperBlock.__call__ has the effect C3_CallStep states:
\* inputs flattened in order, the block registered as consumer of each input
\* and as producer of exactly the _num_output_node fresh Nodes it returns.
C3_CallPostcondition == [][C3_CallStep]_vars

\* A block called a second time, on a nested list of two distinct Nodes, one
\* of them the output of an earlier call.
C3_Witness ==
    /\ ret.outcome = "returned"
    /\ Len(ret.arg) = 1
    /\ Len(ret.arg[1]) = 2
    /\ ret.arg[1][1] > InputNodes
    /\ ret.arg[1][2] # ret.arg[1][1]
    /\ ret.nodesBefore > InputNodes

\* "Shape compatible" as the specification words it: equal rank and
\* identical all-but-last dimensions.
PairCompatible(a, b) ==
    /\ Len(a) = Len(b)
    /\ \A d \in 1..(Len(a) - 1) : a[d] = b[d]

IsMergeOfSeveral == last.op = "Merge.build" /\ Len(last.args) >= 2

\* Two rank-3 inputs with equal leading and different trailing dimensions.
IsC5Case ==
    /\ last.op = "Merge.build"
    /\ Len(last.args) = 2
    /\ Len(last.args[1]) = 3
    /\ Len(last.args[2]) = 3
    /\ AllButLast(last.args[1]) = AllButLast(last.args[2])
    /\ LastDim(last.args[1]) # LastDim(last.args[2])

\* C5 (as claimed): two rank-3 inputs with equal leading and different
\* trailing dimensions take the fallback: both are flattened to rank <= 2 and
\* the output is the concatenation of the flattened inputs.
C5_FallbackTaken ==
    IsC5Case =>
        /\ last.outcome = "returned"
        /\ last.value.flattened
        /\ \A i \in 1..2 : Len(last.value.operands[i]) <= 2
        /\ last.value.op = "Concatenate"

\* C5 (amended): such inputs are shape compatible, so no fallback is taken:
\* neither input is flattened, and for either merge mode the output is the
\* concatenation of the two rank-3 inputs along the last axis.
C5_NoFallbackConcatenate ==
    IsC5Case =>
        /\ last.outcome = "returned"
        /\ ~last.value.flattened
        /\ last.value.operands = last.args
        /\ last.value.op = "Concatenate"
        /\ last.value.shape =
               Append(AllButLast(last.args[1]),
                      LastDim(last.args[1]) + LastDim(last.args[2]))
\* Such a pair merged by a block with merge_type unset, resolved to 'add'.
C5_Witness ==
    /\ IsC5Case
    /\ last.self.merge_type = PyNone
    /\ "merge_type" \in DOMAIN hp
    /\ hp["merge_type"] = PyStr("add")

\* C6 (as claimed): with N >= 2 inputs the result is the additive merge
\* exactly when the mode is 'add' and all reconciled inputs have the same
\* shape, the concatenation otherwise, and never an error.
C6_AddOrConcatenate ==
    IsMergeOfSeveral =>
        LET mode == IF Truthy(last.self.merge_type)
                    THEN last.self.merge_type ELSE hp["merge_type"]
            same == \A i \in 1..Len(last.value.operands) :
                        last.value.operands[i] = last.value.operands[1]
        IN  /\ last.outcome = "returned"
            /\ last.value.op =
                   IF mode = PyStr("add") /\ same THEN "Add" ELSE "Concatenate"

\* C8: Flatten is idempotent: Flatten built on what Flatten returned returns
\* it unchanged; a rank > 2 input gives (batch, product of the other
\* dimensions) and a rank <= 2 input is returned itself.
C8_FlattenIdempotent ==
    (last.op = "Flatten.build" /\ last.outcome = "returned") =>
        LET x == last.args[1]
            once == last.value
            twice == FlattenBuild(hp, <<once.shape>>)
        IN  /\ twice.outcome = "returned"
            /\ twice.value.shape = once.shape
            /\ twice.value.op = "input"
            /\ Len(x) > 2 =>
                   /\ Len(once.shape) = 2
                   /\ once.shape[1] = x[1]
                   /\ once.shape[2] = Product(Tail(x))
            /\ Len(x) <= 2 => (once.op = "input" /\ once.shape = x)
\* Flatten built on the output of a Flatten that collapsed a rank-4 input.
C8_Witness ==
    /\ last.op = "Flatten.build"
    /\ last.outcome = "returned"
    /\ last.args = << <<0, 12>> >>

\* C10: with N >= 2 inputs, every input is flattened if and only if some
\* pair of inputs is not shape compatible, and none is otherwise: comparing
\* each input with the first decides the same as comparing all pairs.
C10_FirstDecidesAllPairs ==
    IsMergeOfSeveral =>
        LET n == Len(last.args)
            somePairIncompatible ==
                \E i \in 1..n : \E j \in 1..n : ~PairCompatible(last.args[i], last.args[j])
        IN  /\ last.value.flattened <=> somePairIncompatible
            /\ last.value.operands =
                   IF somePairIncompatible
                   THEN [i \in 1..n |->
                            IF Len(last.args[i]) > 2
                            THEN <<last.args[i][1], Product(Tail(last.args[i]))>>
                            ELSE last.args[i]]
                   ELSE last.args
\* Three inputs of which the first two are compatible and the third is not.
C10_Witness ==
    /\ last.op = "Merge.build"
    /\ Len(last.args) = 3
    /\ PairCompatible(last.args[1], last.args[2])
    /\ ~PairCompatible(last.args[2], last.args[3])
    /\ last.value.flattened

IsRNNBuildOfOne == last.op = "RNNBlock.build" /\ Len(last.args) = 1
RNNShapeErrorRaised ==
    /\ last.outcome = "ValueError"
    /\ last.value.raised_by = "RNNBlock.build"

\* C4 (as claimed): RNNBlock.build on one input raises the shape error if and
\* only if the rank of the input is less than 3, and the message carries the
\* shape received.
C4_ShapeErrorIffRankBelow3 ==
    IsRNNBuildOfOne =>
        /\ RNNShapeErrorRaised <=> Len(last.args[1]) < 3
        /\ RNNShapeErrorRaised => last.value.message_shape = last.args[1]

\* The build got as far as the stack of recurrent layers.
RNNStackBuilt ==
    /\ last.op = "RNNBlock.build"
    /\ \/ last.outcome = "returned"
       \/ last.outcome = "ValueError" /\ last.value.raised_by = "Permute"

\* C9: with a resolved layer count n >= 1, RNNBlock.build stacks exactly n
\* recurrent layers, the first n-1 created with return_sequences = True and
\* the last with the block's return_sequences, whatever the bidirectional
\* flag and the cell type.
C9_StackReturnSequences ==
    RNNStackBuilt =>
        LET n == IF Truthy(last.self.num_layers)
                 THEN last.self.num_layers.v ELSE hp["num_layers"].v
            stack == last.value.stack
        IN  n >= 1 =>
                /\ Len(stack) = n
                /\ \A i \in 1..(n - 1) : stack[i].return_sequences = PyTrue
                /\ stack[n].return_sequences = last.self.return_sequences
\* A stack of 4 unidirectional GRU layers of a block with return_sequences=False.
C9_Witness ==
    /\ last.op = "RNNBlock.build"
    /\ last.outcome = "returned"
    /\ last.self.num_layers = PyInt(4)
    /\ last.self.return_sequences = PyFalse
    /\ Len(last.value.stack) = 4
    /\ last.value.stack[1].layer = "gru"
    /\ ~last.value.stack[1].bidirectional

DenseTunables == {"num_layers", "use_bn", "dropout_rate"}

\* C1 (as claimed): a tunable argument the user fixed at construction, the
\* falsy values False and 0 included, is resolved by every build to exactly
\* the fixed value, whatever hp.values holds for its name.
C1_FixedValueWins ==
    (last.op = "DenseBlock.build" /\ last.outcome = "returned") =>
        \A name \in DenseTunables :
            last.self[name] # PyNone => last.value.resolved[name] = last.self[name]

IsConvolution(applied) == applied.layer \in {"Conv", "SeparableConv"}

\* C7 (as claimed): each of the two convolutions of every repeat gets
\* padding 'valid' exactly when 2 * kernel_size <= every spatial dimension of
\* the tensor it is applied to (the output of the op before it), for rank-4
\* and rank-3 inputs alike, and 'same' otherwise.
C7_PaddingBySpatialDims ==
    (last.op = "ConvBlock.build" /\ last.outcome = "returned") =>
        LET layers == last.value.layers
        IN  \A k \in 1..Len(layers) :
                /\ layers[k].input = IF k = 1 THEN last.args[1] ELSE layers[k - 1].output
                /\ IsConvolution(layers[k]) =>
                       (layers[k].padding = "valid" <=>
                           \A d \in 2..(Len(layers[k].input) - 1) :
                               2 * layers[k].size <= layers[k].input[d])
                /\ IsConvolution(layers[k]) => layers[k].padding \in {"valid", "same"}

\* The recorded references: a Node refers to the blocks in its
\* out_hypermodels (it feeds them) and a block is referred to the Nodes whose
\* in_hypermodels hold it (it produces them).  A path block -> Node -> block
\* is one edge between blocks.
Feeds(b, c) ==
    \E n \in Nodes : b \in Range(in_hypermodels[n]) /\ c \in Range(out_hypermodels[n])

\* The blocks reached from b along at most k edges, k >= 1.
RECURSIVE ReachedWithin(_, _)
ReachedWithin(b, k) ==
    LET step == {c \in Blocks : Feeds(b, c)}
    IN  IF k <= 1 THEN step
        ELSE LET before == ReachedWithin(b, k - 1)
             IN  before \cup {c \in Blocks : \E m \in before : Feeds(m, c)}

OnCycle(b) == b \in ReachedWithin(b, Len(BlockClass))

\* C11 (as claimed): after any sequence of __call__s on existing Nodes, a
\* second __call__ of a block included, the recorded producer and consumer
\* references have no cycle and every Node has at most one producing block.
C11_AcyclicOneProducer ==
    /\ \A b \in Blocks : ~OnCycle(b)
    /\ \A n \in Nodes : Cardinality(Range(in_hypermodels[n])) <= 1

\* A parameter left unset at construction resolved to one of the options.
ResolvedWithin(fixed, value, options) ==
    ~Truthy(fixed) => value \in Range(options)

LastReturnedFrom(op) == last.op = op /\ last.outcome = "returned"

\* C12 (as claimed): when blocks are built one after another against the
\* same hp within one trial, every value a block resolves for a parameter it
\* was not given is one of the options this block declares for it, for the
\* shared names 'kernel_size', 'pooling' and 'reduction_type', and
\* SpatialReduction returns a rank-2 tensor for every input of rank above 2.
C12_ResolvedInOwnDomain ==
    /\ LastReturnedFrom("ConvBlock.build") =>
           ResolvedWithin(last.self.kernel_size, last.value.resolved.kernel_size,
                          KernelSizeChoices)
    /\ LastReturnedFrom("XceptionBlock.build") =>
           /\ ResolvedWithin(last.self.kernel_size, last.value.resolved.kernel_size,
                             XceptionKernelSizeChoices)
           /\ ResolvedWithin(last.self.pooling, last.value.resolved.pooling,
                             XceptionPoolingChoices)
    /\ LastReturnedFrom("ResNetBlock.build") =>
           ResolvedWithin(last.self.pooling, last.value.resolved.pooling,
                          ResNetPoolingChoices)
    /\ (LastReturnedFrom("SpatialReduction.build") /\ Rank(last.args[1]) > 2) =>
           /\ ResolvedWithin(last.self.reduction_type, last.value.reduction_type,
                             SpatialReductionChoices)
           /\ Rank(last.value.shape) = 2
    /\ (LastReturnedFrom("TemporalReduction.build") /\ Rank(last.args[1]) > 2) =>
           ResolvedWithin(last.self.reduction_type, last.value.reduction_type,
                          TemporalReductionChoices)

====
